---- MODULE Spec2Model ----
(***************************************************************************)
(* A model of docs/examples/te_llama/te_llama.py: the scoped substitution  *)
(* of the decoder-layer class (replace_decoder, TELlamaForCausalLM.__new__)*)
(* the shard loop of TELlamaForCausalLM.from_pretrained_local, and the     *)
(* weight remapping of replace_params.                                      *)
(*                                                                         *)
(* Parameter names are the real strings of the program.  A tensor is the   *)
(* sequence of its rows along axis 0; a row is a number that identifies    *)
(* its content.  A state dict is a function from names to tensors.         *)
(***************************************************************************)
EXTENDS Integers, Sequences, FiniteSets, TLC

\* ------------------------------------------------------------------ bounds
\* Decoder layers of a checkpoint or a model: 0 .. MaxLayers.
MaxLayers == 2
\* Rows (axis 0) of every projection weight; fc1_weight has twice as many.
Rows == 1
\* Shard files of a checkpoint: 1 .. MaxShards.
MaxShards == 2

\* ------------------------------------------------------------ names, keys
\* The decimal form of a layer index, as it appears in a parameter name.
RECURSIVE Str(_)
Str(n) ==
    IF n < 10 THEN SubSeq("0123456789", n + 1, n + 1)
    ELSE Str(n \div 10) \o SubSeq("0123456789", (n % 10) + 1, (n % 10) + 1)

LayerPrefixOf(i) == "model.layers." \o Str(i) \o "."

\* The source (HF) names read by replace_params, in the order of its rules.
HFSuffix ==
    << "input_layernorm.weight",
       "self_attn.q_proj.weight",
       "self_attn.k_proj.weight",
       "self_attn.v_proj.weight",
       "self_attn.o_proj.weight",
       "post_attention_layernorm.weight",
       "mlp.gate_proj.weight",
       "mlp.up_proj.weight",
       "mlp.down_proj.weight" >>

\* The rules of replace_params in program order: the target (TE) name and the
\* source names whose tensors are concatenated along axis 0 to give its value.
Rules ==
    << [target |-> "self_attention.layernorm_qkv.layer_norm_weight",
        sources |-> << "input_layernorm.weight" >>],
       [target |-> "self_attention.layernorm_qkv.query_weight",
        sources |-> << "self_attn.q_proj.weight" >>],
       [target |-> "self_attention.layernorm_qkv.key_weight",
        sources |-> << "self_attn.k_proj.weight" >>],
       [target |-> "self_attention.layernorm_qkv.value_weight",
        sources |-> << "self_attn.v_proj.weight" >>],
       [target |-> "self_attention.proj.weight",
        sources |-> << "self_attn.o_proj.weight" >>],
       [target |-> "layernorm_mlp.layer_norm_weight",
        sources |-> << "post_attention_layernorm.weight" >>],
       [target |-> "layernorm_mlp.fc1_weight",
        sources |-> << "mlp.gate_proj.weight", "mlp.up_proj.weight" >>],
       [target |-> "layernorm_mlp.fc2_weight",
        sources |-> << "mlp.down_proj.weight" >>] >>

\* ------------------------------------------------------- re.match(pattern)
IsDigit(c) == c \in {"0", "1", "2", "3", "4", "5", "6", "7", "8", "9"}

\* One character matched by an unescaped "." of the pattern: any but newline.
IsDot(c) == c # "\n"

CharAt(s, i) == SubSeq(s, i, i)

\* The length of the run of digits of s that starts at position i.
RECURSIVE DigitRun(_, _)
DigitRun(s, i) ==
    IF i <= Len(s) /\ IsDigit(CharAt(s, i)) THEN 1 + DigitRun(s, i + 1) ELSE 0

\* The start positions re.search would try.
SearchStarts(s) == 1 .. Len(s)

\* The start positions re.match tries: the start of the string only.
MatchStarts(s) == {1}

\* The digits \d+ may take at start b (greedy, giving back while the final "."
\* finds no character): the numbers n of digits after which a "." can match.
DigitChoices(s, b) ==
    { n \in 1 .. DigitRun(s, b + 13) :
        b + 13 + n <= Len(s) /\ IsDot(CharAt(s, b + 13 + n)) }

\* Whether 'model.layers.\d+.' matches s at position b.
MatchesAt(s, b) ==
    /\ b + 13 <= Len(s)
    /\ SubSeq(s, b, b + 4) = "model"
    /\ IsDot(CharAt(s, b + 5))
    /\ SubSeq(s, b + 6, b + 11) = "layers"
    /\ IsDot(CharAt(s, b + 12))
    /\ DigitChoices(s, b) # {}

Max(S) == CHOOSE x \in S : \A y \in S : y <= x

Min(S) == CHOOSE x \in S : \A y \in S : x <= y

\* m = re.match('model.layers.\d+.', param_key): "" stands for None, else
\* m.group().
layer_prefix_pat(param_key) ==
    LET starts == { b \in MatchStarts(param_key) : MatchesAt(param_key, b) }
    IN  IF starts = {} THEN ""
        ELSE LET b == Min(starts)
             IN  SubSeq(param_key, b, b + 13 + Max(DigitChoices(param_key, b)))

\* The first loop of replace_params.
all_layer_prefixes(hf) ==
    { layer_prefix_pat(k) : k \in DOMAIN hf } \ {""}

\* ----------------------------------------------------------------- tensors
\* The concatenation of the tensors in reverse order (up rows before gate rows).
RECURSIVE cat_reversed(_)
cat_reversed(ts) ==
    IF ts = << >> THEN << >> ELSE cat_reversed(Tail(ts)) \o Head(ts)

\* torch.cat(ts, dim=0) of a sequence of tensors.
RECURSIVE torch_cat(_)
torch_cat(ts) == IF ts = << >> THEN << >> ELSE Head(ts) \o torch_cat(Tail(ts))

\* dst.data[:] = src.data[:] copies in place and broadcasts a single row; any
\* other difference of shape is a RuntimeError.
CanAssign(dst, src) == Len(src) = Len(dst) \/ Len(src) = 1

Assign(dst, src) ==
    IF Len(src) = Len(dst) THEN src ELSE [r \in 1 .. Len(dst) |-> src[1]]

\* ---------------------------------------------------------- replace_params
\* A rule applied whether or not the target set holds its target name.
RuleAppliesAlways(te, hf, p, rule) == TRUE

\* A rule applied only when the source set holds its source names as well.
RuleAppliesIfSourcePresent(te, hf, p, rule) ==
    /\ (p \o rule.target) \in DOMAIN te
    /\ \A j \in DOMAIN rule.sources : (p \o rule.sources[j]) \in DOMAIN hf

\* A rule is applied when its target name is in the target set.
RuleApplies(te, hf, p, rule) == (p \o rule.target) \in DOMAIN te

\* The names a rule reads from the source set, in the order it reads them.
SourceKeys(p, rule) == [j \in 1 .. Len(rule.sources) |-> p \o rule.sources[j]]

\* One "if ... in te_state_dict: ... = ..." statement.  st is the call so far:
\* the target set, the exception raised ("none": still running), the source
\* names read and the target names written.  The right-hand side is evaluated
\* first; a name missing from a dict is a KeyError.
ApplyRule(st, hf, p, rule) ==
    LET tk   == p \o rule.target
        sk   == SourceKeys(p, rule)
        miss == { j \in 1 .. Len(sk) : sk[j] \notin DOMAIN hf }
        upto == IF miss = {} THEN Len(sk) ELSE Min(miss) - 1
        got  == st.reads \cup { sk[j] : j \in 1 .. upto }
    IN  IF st.exc # "none" \/ ~RuleApplies(st.te, hf, p, rule) THEN st
        ELSE IF miss # {} \/ tk \notin DOMAIN st.te
             THEN [st EXCEPT !.exc = "KeyError", !.reads = got]
        ELSE LET value == torch_cat([j \in 1 .. Len(sk) |-> hf[sk[j]]])
             IN  IF ~CanAssign(st.te[tk], value)
                 THEN [st EXCEPT !.exc = "RuntimeError", !.reads = got]
                 ELSE [st EXCEPT !.te = [@ EXCEPT ![tk] = Assign(@, value)],
                                 !.reads = got,
                                 !.written = @ \cup {tk}]

\* The body of "for layer_prefix in all_layer_prefixes" for one prefix: the
\* rules from the n-th on.
RECURSIVE ApplyRules(_, _, _, _)
ApplyRules(st, hf, p, n) ==
    IF n > Len(Rules) THEN st
    ELSE ApplyRules(ApplyRule(st, hf, p, Rules[n]), hf, p, n + 1)

\* The second loop, over the prefixes in the order the set yields them.
RECURSIVE ForEachPrefix(_, _, _)
ForEachPrefix(st, hf, order) ==
    IF order = << >> THEN st
    ELSE ForEachPrefix(ApplyRules(st, hf, Head(order), 1), hf, Tail(order))

\* The orders in which a set may be iterated.
Orders(S) ==
    { o \in [1 .. Cardinality(S) -> S] : \A i, j \in DOMAIN o : o[i] = o[j] => i = j }

\* What "return all_layer_prefixes" hands back.
ReturnValue(prefixes) == prefixes

\* replace_params(hf_state_dict, te_state_dict), iterating in the given order:
\* the target set afterwards (te), the exception (exc), the names read and
\* written, and the value returned (ret, meaningful when exc = "none").
replace_params(hf_state_dict, te_state_dict, order) ==
    [ForEachPrefix([te |-> te_state_dict, exc |-> "none", reads |-> {},
                    written |-> {}, ret |-> {}],
                   hf_state_dict, order)
        EXCEPT !.ret = ReturnValue(all_layer_prefixes(hf_state_dict))]

\* ------------------------------------------------- checkpoints and models
Restrict(f, S) == [k \in S |-> f[k]]

\* The subsets of S with at most one element.
AtMostOne(S) == {{}} \cup { {x} : x \in S }

\* The parameters outside the decoder layers; replace_params has no rule for
\* them.
NonLayerKeys ==
    << "model.embed_tokens.weight", "model.norm.weight", "lm_head.weight" >>

Range(seq) == { seq[j] : j \in DOMAIN seq }

\* The content of a checkpoint tensor: rows that differ from every other
\* tensor's rows.
HFTensor(i, j, n) == [r \in 1 .. n |-> 100 * i + 10 * j + r]

HFLayerKeys(i) == { LayerPrefixOf(i) \o HFSuffix[j] : j \in DOMAIN HFSuffix }

\* The decoder-layer tensors of a checkpoint with the given layers.
HFLayers(layers) ==
    [k \in UNION { HFLayerKeys(i) : i \in layers } |->
        LET i == CHOOSE i \in layers : k \in HFLayerKeys(i)
            j == CHOOSE j \in DOMAIN HFSuffix : k = LayerPrefixOf(i) \o HFSuffix[j]
        IN  HFTensor(i, j, Rows)]

\* The other tensors of a checkpoint; those in bad have one row too many for
\* the model.
HFNonLayer(bad) ==
    [k \in Range(NonLayerKeys) |->
        LET j == CHOOSE j \in DOMAIN NonLayerKeys : k = NonLayerKeys[j]
        IN  HFTensor(9, j, IF k \in bad THEN Rows + 1 ELSE Rows)]

TELayerKeys(i) == { LayerPrefixOf(i) \o Rules[j].target : j \in DOMAIN Rules }

Zeros(n) == [r \in 1 .. n |-> 0]

\* The parameters of LlamaForCausalLM(config) built from TELlamaDecoderLayer,
\* before any weight is loaded: fc1_weight holds the gate and the up rows.
NewModel(num_hidden_layers) ==
    [k \in UNION { TELayerKeys(i) : i \in 0 .. num_hidden_layers - 1 }
           \cup Range(NonLayerKeys) |->
        IF k \in Range(NonLayerKeys) THEN Zeros(Rows)
        ELSE LET j == CHOOSE j \in DOMAIN Rules :
                        \E i \in 0 .. num_hidden_layers - 1 :
                            k = LayerPrefixOf(i) \o Rules[j].target
             IN  Zeros(Rows * Len(Rules[j].sources))]

\* Names a shard may also hold that are not "model.layers.<digits>." names.
OtherKeys ==
    { "model.embed_tokens.weight",
      "model.norm.weight",
      "lm_head.weight",
      "model.layers.norm.weight",
      "model_layers_0_input_layernorm.weight",
      "model.layers.0input_layernorm.weight",
      "model.layers.10",
      "base_model.model.layers.0.input_layernorm.weight" }

\* Whether a name begins with the literal form model.layers.<digits>.
BeginsWithLayerPrefix(k) ==
    /\ Len(k) >= 15
    /\ SubSeq(k, 1, 13) = "model.layers."
    /\ DigitRun(k, 14) >= 1
    /\ 14 + DigitRun(k, 14) <= Len(k)
    /\ CharAt(k, 14 + DigitRun(k, 14)) = "."

\* -------------------------------------------------------------------- state
VARIABLES
    slot,                       \* transformers...modeling_llama.LlamaDecoderLayer
    slot_before,                \* the class the slot held before any call
    original_llama_decoder_cls, \* the local of replace_decoder
    pc,                         \* where the program is
    exc,                        \* the exception that ended it, or "none"
    config,                     \* the LlamaConfig: [num_hidden_layers]
    has_index,                  \* os.path.isfile(<dir>/<WEIGHTS_INDEX_NAME>)
    shards,                     \* the shard files of the checkpoint directory
    resolved_archive_file,      \* the list get_checkpoint_shard_files returned
    shard_idx,                  \* the position of the for loop in that list
    state_dict,                 \* the source set: the shard loaded
    resident,                   \* the shards whose tensors are in memory
    te_state_dict,              \* the target set: the model's live parameters
    te_before,                  \* the target set when replace_params was called
    replaced_layers,            \* what replace_params returned
    reads,                      \* the source names replace_params read
    written,                    \* the target names replace_params wrote
    error_msgs,                 \* the local list of from_pretrained_local
    returned,                   \* what the caller received
    log                         \* the shard steps taken, in order

vars ==
    << slot, slot_before, original_llama_decoder_cls, pc, exc, config, has_index, shards,
       resolved_archive_file, shard_idx, state_dict, resident, te_state_dict,
       te_before, replaced_layers, reads, written, error_msgs, returned, log >>

loader_vars ==
    << slot, slot_before, original_llama_decoder_cls, config, has_index, shards,
       resolved_archive_file, shard_idx, resident, error_msgs, returned, log >>

\* ------------------------------------------------ replace_params, on its own
\* The source set: some layers of a checkpoint, possibly short of one name,
\* possibly with one other name; the target set: a model of any depth.
InitRemap ==
    /\ slot = "LlamaDecoderLayer"
    /\ slot_before = "LlamaDecoderLayer"
    /\ original_llama_decoder_cls = "unset"
    /\ pc = "call"
    /\ exc = "none"
    /\ has_index = TRUE
    /\ shards = << >>
    /\ resolved_archive_file = << >>
    /\ shard_idx = 0
    /\ resident = {}
    /\ error_msgs = << >>
    /\ returned = [kind |-> "none"]
    /\ log = << >>
    /\ replaced_layers = {}
    /\ reads = {}
    /\ written = {}
    /\ \E n \in 0 .. MaxLayers :
          /\ config = [num_hidden_layers |-> n]
          /\ te_state_dict = NewModel(n)
          /\ te_before = NewModel(n)
    /\ \E layers \in SUBSET (0 .. MaxLayers - 1) :
          LET full == HFLayers(layers) IN
          \E drop \in AtMostOne(DOMAIN full), other \in AtMostOne(OtherKeys) :
              state_dict = Restrict(full, (DOMAIN full) \ drop)
                             @@ [k \in other |-> HFTensor(9, 9, Rows)]

\* A call of replace_params(state_dict, te_state_dict).
ReplaceParamsCall ==
    /\ pc = "call"
    /\ \E order \in Orders(all_layer_prefixes(state_dict)) :
       \E r \in {replace_params(state_dict, te_state_dict, order)} :
          /\ te_before' = te_state_dict
          /\ te_state_dict' = r.te
          /\ exc' = r.exc
          /\ reads' = r.reads
          /\ written' = r.written
          /\ replaced_layers' = IF r.exc = "none" THEN r.ret ELSE replaced_layers
          /\ pc' = IF r.exc = "none" THEN "returned" ELSE "raised"
    /\ UNCHANGED << state_dict, loader_vars >>

NextRemap == ReplaceParamsCall

SpecRemap == InitRemap /\ [][NextRemap]_vars


\* --------------------------------------------------- the checkpoint files
\* The shard the names of layer i's j-th tensor lies in: the layer's shard, or,
\* for the MLP tensors of a layer that straddles two shards, the next shard.
ShardOf(assign, straddle, nShards, i, j) ==
    IF i \in straddle /\ j >= 7 THEN (assign[i] % nShards) + 1 ELSE assign[i]

\* The checkpoints: layers 0 .. nSrc-1 and the other tensors, split over
\* nShards files; a layer lies in any one shard, or straddles two.
Checkpoints ==
    UNION { UNION { UNION { UNION {
        { LET layers == 0 .. nSrc - 1
              full   == HFLayers(layers) @@ HFNonLayer(bad)
              keys(n) ==
                  { LayerPrefixOf(i) \o HFSuffix[j] :
                      <<i, j>> \in { x \in layers \X DOMAIN HFSuffix :
                          ShardOf(assign, straddle, nShards, x[1], x[2]) = n } }
                  \cup (IF n = 1 THEN {NonLayerKeys[1]} ELSE {})
                  \cup (IF n = nShards THEN {NonLayerKeys[2], NonLayerKeys[3]}
                        ELSE {})
          IN  [n \in 1 .. nShards |-> Restrict(full, keys(n))] :
          bad \in {{}, {NonLayerKeys[1], NonLayerKeys[3]}} } :
        straddle \in IF nShards = 1 THEN {{}} ELSE AtMostOne(0 .. nSrc - 1) } :
        assign \in [0 .. nSrc - 1 -> 1 .. nShards] } :
        nShards \in 1 .. MaxShards } :
        nSrc \in 0 .. MaxLayers }

\* --------------------------------- external: _load_state_dict_into_model
\* Copies the tensors of state_dict the model has a parameter for, and returns
\* a message for each whose shape differs.  (The names of a checkpoint's
\* decoder layers are not names of the model, so only the other parameters
\* are copied.)
load_state_dict_into_model(model, sd) ==
    LET both == DOMAIN model \cap DOMAIN sd
        fits(k) == Len(sd[k]) = Len(model[k])
    IN  [te   |-> [k \in DOMAIN model |->
                      IF k \in both /\ fits(k) THEN sd[k] ELSE model[k]],
         msgs |-> SelectSeq([j \in DOMAIN NonLayerKeys |->
                                "size mismatch for " \o NonLayerKeys[j]],
                            LAMBDA m : \E k \in both :
                                ~fits(k) /\ m = "size mismatch for " \o k)]

\* ------------------------------------ TELlamaForCausalLM, replace_decoder
\* The restore that runs only when the body returned normally.
RestoresOnReturnOnly(raised) == ~raised

\* try: yield / finally: the restore runs however the body ended.
FinallyRestores(raised) == TRUE

\* A missing index file taken for a checkpoint of one shard.
IndexAssumed(found) == TRUE

\* os.path.isfile(...) decides between the sharded load and the AssertionError.
IndexFound(found) == found

\* Every iteration loading the first file of the list.
FirstShard(files, i) == files[1]

\* for shard_file in resolved_archive_file: the i-th file.
ShardAt(files, i) == files[i]

\* A shard that stays in memory after its iteration.
KeptAfterDel(res, i) == res

\* del state_dict; gc.collect(): the shard's tensors are freed.
ResidentAfterDel(res, i) == res \ {i}

Init ==
    /\ slot \in {"LlamaDecoderLayer", "CustomDecoderLayer"}
    /\ slot_before = slot
    /\ original_llama_decoder_cls = "unset"
    /\ pc = "start"
    /\ exc = "none"
    /\ config \in [num_hidden_layers : 0 .. MaxLayers]
    /\ has_index \in BOOLEAN
    /\ shards \in Checkpoints
    /\ resolved_archive_file = << >>
    /\ shard_idx = 0
    /\ state_dict = << >>
    /\ resident = {}
    /\ te_state_dict = << >>
    /\ te_before = << >>
    /\ replaced_layers = {}
    /\ reads = {}
    /\ written = {}
    /\ error_msgs = << >>
    /\ returned = [kind |-> "none"]
    /\ log = << >>

\* __new__: "with replace_decoder(te_decodder_cls=TELlamaDecoderLayer)" enters.
EnterReplaceDecoder ==
    /\ pc = "start"
    /\ original_llama_decoder_cls' = slot
    /\ slot' = "TELlamaDecoderLayer"
    /\ pc' = "constructing"
    /\ UNCHANGED << slot_before, exc, config, has_index, shards,
                    resolved_archive_file, shard_idx, state_dict, resident,
                    te_state_dict, te_before, replaced_layers, reads, written,
                    error_msgs, returned, log >>

\* LlamaForCausalLM(config) builds the model, or raises.
Construct ==
    /\ pc = "constructing"
    /\ \/ /\ te_state_dict' = NewModel(config.num_hidden_layers)
          /\ exc' = exc
       \/ /\ exc' = "ConstructionError"
          /\ te_state_dict' = te_state_dict
    /\ pc' = "exiting"
    /\ UNCHANGED << slot, slot_before, original_llama_decoder_cls, config,
                    has_index, shards, resolved_archive_file, shard_idx,
                    state_dict, resident, te_before, replaced_layers, reads,
                    written, error_msgs, returned, log >>

\* The with block is left: the finally clause of replace_decoder, then the
\* return of __new__ or the exception going on to the caller.
ExitReplaceDecoder ==
    /\ pc = "exiting"
    /\ slot' = IF FinallyRestores(exc # "none")
               THEN original_llama_decoder_cls ELSE slot
    /\ pc' = IF exc = "none" THEN "assembled" ELSE "raised"
    /\ returned' = IF exc = "none" THEN returned ELSE [kind |-> exc]
    /\ UNCHANGED << slot_before, original_llama_decoder_cls, exc, config,
                    has_index, shards, resolved_archive_file, shard_idx,
                    state_dict, resident, te_state_dict, te_before,
                    replaced_layers, reads, written, error_msgs, log >>

\* from_pretrained_local: the test for the index file.
CheckIndex ==
    /\ pc = "assembled"
    /\ IF IndexFound(has_index)
       THEN pc' = "resolve" /\ exc' = exc /\ returned' = returned
       ELSE /\ pc' = "raised"
            /\ exc' = "AssertionError"
            /\ returned' = [kind |-> "AssertionError"]
    /\ UNCHANGED << slot, slot_before, original_llama_decoder_cls, config,
                    has_index, shards, resolved_archive_file, shard_idx,
                    state_dict, resident, te_state_dict, te_before,
                    replaced_layers, reads, written, error_msgs, log >>

\* get_checkpoint_shard_files(...) and "error_msgs = []".
Resolve ==
    /\ pc = "resolve"
    /\ resolved_archive_file' = shards
    /\ error_msgs' = << >>
    /\ shard_idx' = 1
    /\ pc' = "loop"
    /\ UNCHANGED << slot, slot_before, original_llama_decoder_cls, exc, config,
                    has_index, shards, state_dict, resident, te_state_dict,
                    te_before, replaced_layers, reads, written, returned, log >>

\* state_dict = load_state_dict(shard_file)
LoadShard ==
    /\ pc = "loop"
    /\ shard_idx <= Len(resolved_archive_file)
    /\ state_dict' = ShardAt(resolved_archive_file, shard_idx)
    /\ resident' = resident \cup {shard_idx}
    /\ log' = Append(log, << "load", shard_idx >>)
    /\ pc' = "remap"
    /\ UNCHANGED << slot, slot_before, original_llama_decoder_cls, exc, config,
                    has_index, shards, resolved_archive_file, shard_idx,
                    te_state_dict, te_before, replaced_layers, reads, written,
                    error_msgs, returned >>

\* replaced_layers = replace_params(state_dict, vanilla_model.state_dict())
Remap ==
    /\ pc = "remap"
    /\ \E order \in Orders(all_layer_prefixes(state_dict)) :
       \E r \in {replace_params(state_dict, te_state_dict, order)} :
          /\ te_before' = te_state_dict
          /\ te_state_dict' = r.te
          /\ exc' = r.exc
          /\ reads' = r.reads
          /\ written' = r.written
          /\ replaced_layers' = IF r.exc = "none" THEN r.ret ELSE replaced_layers
          /\ pc' = IF r.exc = "none" THEN "passthrough" ELSE "raised"
          /\ returned' = IF r.exc = "none" THEN returned ELSE [kind |-> r.exc]
    /\ log' = Append(log, << "replace_params", shard_idx >>)
    /\ UNCHANGED << slot, slot_before, original_llama_decoder_cls, config,
                    has_index, shards, resolved_archive_file, shard_idx,
                    state_dict, resident, error_msgs >>

\* error_msgs += _load_state_dict_into_model(vanilla_model, state_dict, ...)
PassThrough ==
    /\ pc = "passthrough"
    /\ \E r \in {load_state_dict_into_model(te_state_dict, state_dict)} :
          /\ te_state_dict' = r.te
          /\ error_msgs' = error_msgs \o r.msgs
    /\ log' = Append(log, << "load_into_model", shard_idx >>)
    /\ pc' = "release"
    /\ UNCHANGED << slot, slot_before, original_llama_decoder_cls, exc, config,
                    has_index, shards, resolved_archive_file, shard_idx,
                    state_dict, resident, te_before, replaced_layers, reads,
                    written, returned >>

\* del state_dict; gc.collect(); and on to the next file.
Release ==
    /\ pc = "release"
    /\ resident' = ResidentAfterDel(resident, shard_idx)
    /\ state_dict' = << >>
    /\ log' = Append(log, << "release", shard_idx >>)
    /\ shard_idx' = shard_idx + 1
    /\ pc' = "loop"
    /\ UNCHANGED << slot, slot_before, original_llama_decoder_cls, exc, config,
                    has_index, shards, resolved_archive_file, te_state_dict,
                    te_before, replaced_layers, reads, written, error_msgs,
                    returned >>

\* return vanilla_model
Return ==
    /\ pc = "loop"
    /\ shard_idx > Len(resolved_archive_file)
    /\ returned' = [kind |-> "model", vanilla_model |-> te_state_dict]
    /\ pc' = "done"
    /\ UNCHANGED << slot, slot_before, original_llama_decoder_cls, exc, config,
                    has_index, shards, resolved_archive_file, shard_idx,
                    state_dict, resident, te_state_dict, te_before,
                    replaced_layers, reads, written, error_msgs, log >>

Next ==
    \/ EnterReplaceDecoder
    \/ Construct
    \/ ExitReplaceDecoder
    \/ CheckIndex
    \/ Resolve
    \/ LoadShard
    \/ Remap
    \/ PassThrough
    \/ Release
    \/ Return

Spec == Init /\ [][Next]_vars

\* ------------------------------------------------- claims on replace_params
\* The correspondence table of the specification for layer i: each target
\* name with the value it is to hold.
TableOf(hf, i) ==
    LET p == LayerPrefixOf(i) IN
       ((p \o "self_attention.layernorm_qkv.layer_norm_weight")
            :> hf[p \o "input_layernorm.weight"])
    @@ ((p \o "self_attention.layernorm_qkv.query_weight")
            :> hf[p \o "self_attn.q_proj.weight"])
    @@ ((p \o "self_attention.layernorm_qkv.key_weight")
            :> hf[p \o "self_attn.k_proj.weight"])
    @@ ((p \o "self_attention.layernorm_qkv.value_weight")
            :> hf[p \o "self_attn.v_proj.weight"])
    @@ ((p \o "self_attention.proj.weight")
            :> hf[p \o "self_attn.o_proj.weight"])
    @@ ((p \o "layernorm_mlp.layer_norm_weight")
            :> hf[p \o "post_attention_layernorm.weight"])
    @@ ((p \o "layernorm_mlp.fc1_weight")
            :> (hf[p \o "mlp.gate_proj.weight"] \o hf[p \o "mlp.up_proj.weight"]))
    @@ ((p \o "layernorm_mlp.fc2_weight")
            :> hf[p \o "mlp.down_proj.weight"])

\* Layer i of the target set holds what the table says, and fc1_weight is not
\* the up rows followed by the gate rows.
LayerRemapped(te, hf, i) ==
    /\ \A k \in DOMAIN TableOf(hf, i) : k \in DOMAIN te /\ te[k] = TableOf(hf, i)[k]
    /\ te[LayerPrefixOf(i) \o "layernorm_mlp.fc1_weight"]
         # hf[LayerPrefixOf(i) \o "mlp.up_proj.weight"]
             \o hf[LayerPrefixOf(i) \o "mlp.gate_proj.weight"]

\* The layers of the target set.
TargetLayers == 0 .. config.num_hidden_layers - 1

\* The layers the source set holds at least one name of.
SourceLayers ==
    { i \in 0 .. MaxLayers - 1 : HFLayerKeys(i) \cap DOMAIN state_dict # {} }

\* The source set holds every expected name of every layer of the target set.
CoversTarget == \A i \in TargetLayers : HFLayerKeys(i) \subseteq DOMAIN state_dict

\* The source set holds all nine names of layers 0 .. K-1 and of no other
\* layer, and the target set models the same K layers.
FullCoverage == CoversTarget /\ SourceLayers = TargetLayers

\* C1: when the source set holds all expected names of layers 0 .. K-1 and the
\* target set models the same layers, replace_params returns and every target
\* tensor of the table holds its source tensor, fc1_weight the gate rows
\* followed by the up rows.
C1_RoundTrip ==
    (pc # "call" /\ FullCoverage) =>
        /\ pc = "returned"
        /\ \A i \in TargetLayers : LayerRemapped(te_state_dict, state_dict, i)

C1_Witness ==
    /\ pc = "returned"
    /\ FullCoverage
    /\ config.num_hidden_layers = MaxLayers
    /\ te_state_dict["model.layers.0.layernorm_mlp.fc1_weight"]
         = state_dict["model.layers.0.mlp.gate_proj.weight"]
             \o state_dict["model.layers.0.mlp.up_proj.weight"]

\* The source set holds names of a layer the target set does not model.
FewerTargetLayers == \E i \in SourceLayers : i \notin TargetLayers

\* C2: when the target set models fewer layers than the source set has
\* prefixes of, replace_params returns without raising, reads no source name
\* and writes no target name of a layer the target set lacks, and the layers
\* the target set has hold their source values.
C2_FewerLayers ==
    (pc # "call" /\ FewerTargetLayers /\ CoversTarget) =>
        /\ pc = "returned"
        /\ exc = "none"
        /\ reads = UNION { HFLayerKeys(i) : i \in TargetLayers }
        /\ written = UNION { TELayerKeys(i) : i \in TargetLayers }
        /\ DOMAIN te_state_dict = DOMAIN te_before
        /\ \A i \in TargetLayers : LayerRemapped(te_state_dict, state_dict, i)

C2_Witness ==
    /\ pc = "returned"
    /\ config.num_hidden_layers = 1
    /\ SourceLayers = {0, 1}
    /\ CoversTarget
    /\ LayerRemapped(te_state_dict, state_dict, 0)
    /\ "model.layers.1.input_layernorm.weight" \notin reads

\* Whether name k lies under prefix p.
Under(p, k) == Len(k) >= Len(p) /\ SubSeq(k, 1, Len(p)) = p

\* Every source name is a decoder-layer name or a name the pattern does not
\* match at all.
PlainSource ==
    \A k \in DOMAIN state_dict : BeginsWithLayerPrefix(k) \/ layer_prefix_pat(k) = ""

\* C6: the set replace_params returns holds a prefix exactly when a target
\* parameter under that prefix was overwritten (stated for source sets of
\* plain names).
C6_ReturnsTouched ==
    (pc = "returned" /\ PlainSource) =>
        /\ \A p \in replaced_layers : \E k \in written : Under(p, k)
        /\ \A k \in written : \E p \in replaced_layers : Under(p, k)

\* The outcome of the call is an outcome of replace_params on hf.
OutcomeOf(hf) ==
    \E order \in Orders(all_layer_prefixes(hf)) :
    \E r \in {replace_params(hf, te_before, order)} :
        /\ r.te = te_state_dict
        /\ r.exc = exc
        /\ r.written = written

\* C8: a source name that does not begin with model.layers.<digits>. changes
\* nothing: the target set, the names written and the exception (or its
\* absence) are those of the call without that name.
C8_OtherKeysIgnored ==
    pc # "call" =>
        \A k \in DOMAIN state_dict :
            ~BeginsWithLayerPrefix(k) =>
                /\ OutcomeOf(Restrict(state_dict, (DOMAIN state_dict) \ {k}))
                /\ layer_prefix_pat(k) # "" =>
                       \A w \in written : ~Under(layer_prefix_pat(k), w)

C8_Witness ==
    /\ pc = "returned"
    /\ written # {}
    /\ \E k \in DOMAIN state_dict :
          ~BeginsWithLayerPrefix(k) /\ layer_prefix_pat(k) \in replaced_layers

\* A rule whose target name the target set holds lacks a source name, under a
\* prefix that occurs in the source set.
SourceNameMissing ==
    \E i \in SourceLayers : \E j \in DOMAIN Rules :
        /\ (LayerPrefixOf(i) \o Rules[j].target) \in DOMAIN te_before
        /\ \E n \in DOMAIN Rules[j].sources :
              (LayerPrefixOf(i) \o Rules[j].sources[n]) \notin DOMAIN state_dict

\* C10: a rule is applied exactly when its target name is in the target set:
\* if a rule with a present target lacks a source name the call ends in a
\* KeyError; otherwise it returns having written every present target name
\* under a source prefix, and no other.
C10_MissingSourceRaises ==
    pc # "call" =>
        IF SourceNameMissing
        THEN pc = "raised" /\ exc = "KeyError"
        ELSE /\ pc = "returned"
             /\ written = UNION { TELayerKeys(i) : i \in SourceLayers }
                            \cap DOMAIN te_before

C10_Witness ==
    /\ pc = "raised"
    /\ exc = "KeyError"
    /\ "model.layers.0.mlp.gate_proj.weight" \in reads
    /\ "model.layers.0.mlp.up_proj.weight" \notin DOMAIN state_dict
    /\ "model.layers.0.layernorm_mlp.fc1_weight" \notin written


\* ------------------------------------------ claims on from_pretrained_local
\* The parameter set of the whole checkpoint: the shards put together.
RECURSIVE Unsplit(_)
Unsplit(files) ==
    IF files = << >> THEN << >> ELSE Head(files) @@ Unsplit(Tail(files))

\* The split follows the layer-prefix boundary: the names of a layer all lie in
\* one shard.
BoundarySplit ==
    \A i \in 0 .. MaxLayers - 1 :
        Cardinality({ n \in DOMAIN shards :
                        HFLayerKeys(i) \cap DOMAIN shards[n] # {} }) <= 1

\* The model after one shard holding the whole checkpoint: replace_params, then
\* the pass-through load, on a newly built model.
IsOneShardResult(te) ==
    \E order \in Orders(all_layer_prefixes(Unsplit(shards))) :
    \E r \in {replace_params(Unsplit(shards),
                             NewModel(config.num_hidden_layers), order)} :
        /\ r.exc = "none"
        /\ te = load_state_dict_into_model(r.te, Unsplit(shards)).te

\* C3: with the checkpoint split along the layer-prefix boundary, in any
\* number of shards, with the layers in any shards and in any order, no
\* shard's replace_params fails and the model returned is the model that
\* results from the unsplit checkpoint fed as one shard.
C3_ShardIndependence ==
    BoundarySplit =>
        /\ exc # "KeyError"
        /\ pc = "done" => IsOneShardResult(te_state_dict)

C3_Witness ==
    /\ pc = "done"
    /\ BoundarySplit
    /\ Len(shards) = 2
    /\ config.num_hidden_layers = 2
    /\ "model.layers.1.mlp.down_proj.weight" \in DOMAIN shards[1]
    /\ "model.layers.0.mlp.down_proj.weight" \in DOMAIN shards[2]
    /\ te_state_dict["model.layers.1.layernorm_mlp.fc2_weight"]
         = shards[1]["model.layers.1.mlp.down_proj.weight"]
    /\ te_state_dict["model.layers.0.layernorm_mlp.fc2_weight"]
         = shards[2]["model.layers.0.mlp.down_proj.weight"]

\* C4: the slot holds TELlamaDecoderLayer only while construction inside
\* __new__ runs; in every other state, before the call and after it returned
\* or raised, it holds the class it held before the call.
C4_SlotRestored ==
    IF pc \in {"constructing", "exiting"}
    THEN slot = "TELlamaDecoderLayer"
    ELSE slot = slot_before /\ slot # "TELlamaDecoderLayer"

C4_Witness ==
    /\ pc = "raised"
    /\ exc = "ConstructionError"
    /\ original_llama_decoder_cls = "CustomDecoderLayer"
    /\ slot = "CustomDecoderLayer"

\* The n-th step of the shard loop: the four steps of the first file, then
\* those of the second, and so on.
StepNames == << "load", "replace_params", "load_into_model", "release" >>

NthStep(n) == << StepNames[((n - 1) % 4) + 1], ((n - 1) \div 4) + 1 >>

\* C5: the shards are processed in the order of the resolved list, each by
\* load, replace_params, pass-through load, release in that order, a shard is
\* released before the next is loaded, and at most one shard's tensors are
\* resident in any state.
C5_OneShardResident ==
    /\ \A n \in DOMAIN log : log[n] = NthStep(n)
    /\ Cardinality(resident) <= 1
    /\ pc \in {"remap", "passthrough", "release"} =>
          /\ resident = {shard_idx}
          /\ state_dict = resolved_archive_file[shard_idx]
    /\ pc \in {"loop", "done"} => resident = {}

C5_Witness ==
    /\ pc = "remap"
    /\ shard_idx = 2
    /\ resident = {2}
    /\ log = << << "load", 1 >>, << "replace_params", 1 >>,
                << "load_into_model", 1 >>, << "release", 1 >>, << "load", 2 >> >>

\* The messages the pass-through load reports for the files, in their order.
RECURSIVE ShardMessages(_, _)
ShardMessages(files, model) ==
    IF files = << >> THEN << >>
    ELSE load_state_dict_into_model(model, Head(files)).msgs
            \o ShardMessages(Tail(files), model)

\* The messages the caller can reach through what the call returned.
CallerMessages ==
    IF "error_msgs" \in DOMAIN returned THEN returned.error_msgs ELSE << >>

\* C7: the messages of every shard are accumulated and, once the call has
\* returned, are reachable from what it returned.
C7_MessagesReturned ==
    pc = "done" =>
        /\ error_msgs = ShardMessages(resolved_archive_file, te_state_dict)
        /\ CallerMessages = error_msgs

\* C9: without an index file the call ends in an AssertionError before any
\* shard is resolved, loaded or remapped, and no model is returned.
C9_NoIndexFails ==
    ~has_index =>
        /\ pc \in {"start", "constructing", "exiting", "assembled", "raised"}
        /\ pc = "raised" => exc \in {"AssertionError", "ConstructionError"}
        /\ (pc = "raised" /\ te_state_dict # << >>) => exc = "AssertionError"
        /\ resolved_archive_file = << >>
        /\ log = << >>
        /\ resident = {}
        /\ written = {}
        /\ error_msgs = << >>
        /\ returned.kind # "model"

C9_Witness ==
    /\ ~has_index
    /\ pc = "raised"
    /\ exc = "AssertionError"
    /\ returned = [kind |-> "AssertionError"]
    /\ Len(shards) = 2

====
